---- MODULE Spec2Model ----
(***************************************************************************)
(* EspRadio (src/openthread/src/esp.rs): the adapter between the           *)
(* interrupt-driven ESP IEEE 802.15.4 driver and the async Radio trait.    *)
(*                                                                         *)
(* Two contexts are modelled: the single cooperative task that runs        *)
(* set_config / transmit / receive one after the other, and the driver's   *)
(* interrupt context that runs the three registered callbacks and may      *)
(* preempt the task between any two of its steps.  The driver and the      *)
(* embassy Signal are collaborators: what the driver returns to a call is  *)
(* drawn nondeterministically from bounded sets.                           *)
(*                                                                         *)
(* Option<T> is a sequence of length at most one: <<>> is None, <<x>> is   *)
(* Some(x).  A byte slice is a sequence of numbers in 0..255.              *)
(***************************************************************************)
EXTENDS Integers, Sequences, FiniteSets, TLC

\* ------------------------------------------------------------- bounds
\* Longest raw frame (length byte, PSDU bytes, RSSI byte) the driver hands out.
MaxFrameLen == 3
\* Largest capacity of a caller-supplied PSDU / ACK buffer.
MaxBuf == 2
\* Accepted submissions of abandoned transmits whose outcome the driver has
\* still to report.
MaxStale == 1
\* Frames the driver's receive queue holds (the adapter configures 50).
MaxQueue == 2
\* Driver handles EspRadio::new is called with.
MaxAdapters == 2

\* Byte values frames are built from: a small exact length, the same length
\* with the reserved top bit set, and a value whose low seven bits exceed the
\* length of every frame.
ByteVals == {1, 129, 255}
\* Channels a frame may have been seen on.
Channels == {11, 26}
None == <<>>
Some(x) == <<x>>

RECURSIVE SeqsUpTo(_, _)
SeqsUpTo(S, n) ==
    IF n = 0 THEN {<<>>}
    ELSE LET shorter == SeqsUpTo(S, n - 1)
         IN  shorter \cup {Append(s, b) : s \in {t \in shorter : Len(t) = n - 1}, b \in S}

\* RawReceived { data, channel } as the driver returns it.
Frames == [data : SeqsUpTo(ByteVals, MaxFrameLen), channel : Channels]

\* A caller's buffer of capacity n before the call: every byte is 170, a value
\* no frame byte has, so that any write into the buffer shows.
Buffer(n) == [i \in 1..n |-> 170]
Buffers == {Buffer(n) : n \in 0..MaxBuf}

\* ------------------------------------------------------------- Config
Cca(mode, threshold) == [mode |-> mode, ed_threshold |-> threshold]

\* Self::DEFAULT_CONFIG (Config::new()).  The field values of Config::new() are
\* set outside esp.rs; nothing below depends on which values they are.
DEFAULT_CONFIG ==
    [channel |-> 15, power |-> 8, cca |-> Cca("Carrier", 0),
     pan_id |-> None, short_addr |-> None, ext_addr |-> None,
     promiscuous |-> FALSE, rx_when_idle |-> FALSE]

\* The configurations set_config is called with between transmits and receives.
CallerConfigs == {DEFAULT_CONFIG, [DEFAULT_CONFIG EXCEPT !.cca = Cca("Ed", 40)]}

\* The configurations a caller passes: the default and, for every field, one
\* that differs from the default in that field alone.
Configs ==
    {DEFAULT_CONFIG,
     [DEFAULT_CONFIG EXCEPT !.channel = 20],
     [DEFAULT_CONFIG EXCEPT !.power = 4],
     [DEFAULT_CONFIG EXCEPT !.cca = Cca("Ed", 40)],
     [DEFAULT_CONFIG EXCEPT !.cca = Cca("CarrierAndEd", 40)],
     [DEFAULT_CONFIG EXCEPT !.cca = Cca("CarrierOrEd", 50)],
     [DEFAULT_CONFIG EXCEPT !.cca = Cca("Ed", 200)],
     [DEFAULT_CONFIG EXCEPT !.pan_id = Some(4660)],
     [DEFAULT_CONFIG EXCEPT !.short_addr = Some(7)],
     [DEFAULT_CONFIG EXCEPT !.ext_addr = Some(9)],
     [DEFAULT_CONFIG EXCEPT !.promiscuous = TRUE],
     [DEFAULT_CONFIG EXCEPT !.rx_when_idle = TRUE]}

\* ------------------------------------------------------------- bytes
RECURSIVE BitAnd(_, _)
BitAnd(a, b) ==
    IF a = 0 \/ b = 0 THEN 0
    ELSE (a % 2) * (b % 2) + 2 * BitAnd(a \div 2, b \div 2)

\* `byte as i8`
AsI8(b) == IF b >= 128 THEN b - 256 ELSE b

Min(a, b) == IF a <= b THEN a ELSE b

\* CopyPsdu that also copies the byte after the PSDU.
CopyPsduPastLen(dst, data, n) ==
    [i \in 1..Len(dst) |-> IF i <= n + 1 /\ i + 1 <= Len(data) THEN data[i + 1] ELSE dst[i]]

\* dst[..n].copy_from_slice(&data[1..][..n])
CopyPsdu(dst, data, n) ==
    [i \in 1..Len(dst) |-> IF i <= n THEN data[i + 1] ELSE dst[i]]

\* ------------------------------------------------------------- results
Meta(len, channel, rssi) == [len |-> len, channel |-> channel, rssi |-> rssi]
Ok(op, meta) == Some([op |-> op, kind |-> "Ok", meta |-> meta])
Err(op, kind) == Some([op |-> op, kind |-> kind, meta |-> None])

\* ------------------------------------------------------------- update_driver_config
\* The EspConfig record built from the stored Config.
EspConfig(c) ==
    [auto_ack_tx |-> TRUE,
     auto_ack_rx |-> TRUE,
     enhance_ack_tx |-> TRUE,
     promiscuous |-> c.promiscuous,
     coordinator |-> FALSE,
     rx_when_idle |-> c.rx_when_idle,
     txpower |-> c.power,
     channel |-> c.channel,
     cca_threshold |-> IF c.cca.mode = "Carrier" THEN 0 ELSE AsI8(c.cca.ed_threshold),
     cca_mode |-> c.cca.mode,
     pan_id |-> c.pan_id,
     short_addr |-> c.short_addr,
     ext_addr |-> c.ext_addr,
     rx_queue_size |-> 50]

\* ------------------------------------------------------------- frame decoding
\* PsduLen with the reserved top bit taken as part of the length.
PsduLenNoMask(data) == Min(Len(data) - 1, data[1])

\* (data.len() - 1).min((data[0] & 0x7f) as usize), for a non-empty frame.
PsduLen(data) == Min(Len(data) - 1, BitAnd(data[1], 127))

\* Rssi with the byte read as unsigned.
RssiUnsigned(data, n) == IF Len(data) > 1 + n THEN Some(data[1 + n + 1]) ELSE None

\* Only read RSSI if there is at least one byte after the PSDU.
Rssi(data, n) == IF Len(data) > 1 + n THEN Some(AsI8(data[1 + n + 1])) ELSE None

\* ReceiveDecode that fills the buffer with what fits of an oversized PSDU.
ReceiveDecodeTruncating(raw, buf) ==
    IF Len(raw.data) < 1
    THEN [result |-> Err("receive", "Other"), buf |-> buf]
    ELSE LET psdu_len == Min(PsduLen(raw.data), Len(buf))
         IN  [result |-> Ok("receive", Some(Meta(psdu_len, raw.channel,
                                                 Rssi(raw.data, psdu_len)))),
              buf |-> CopyPsdu(buf, raw.data, psdu_len)]

\* receive, after the frame was polled: the result and the caller's buffer.
ReceiveDecode(raw, buf) ==
    IF Len(raw.data) < 1
    THEN [result |-> Err("receive", "Other"), buf |-> buf]
    ELSE LET psdu_len == PsduLen(raw.data)
         IN  IF psdu_len > Len(buf)
             THEN [result |-> Err("receive", "Other"), buf |-> buf]
             ELSE [result |-> Ok("receive", Some(Meta(psdu_len, raw.channel,
                                                      Rssi(raw.data, psdu_len)))),
                   buf |-> CopyPsdu(buf, raw.data, psdu_len)]

\* AckDecode that reports an oversized or empty ack frame as an error, the
\* way receive does.
AckDecodeStrict(got, buf) ==
    IF got = None
    THEN [result |-> Ok("transmit", None), buf |-> buf]
    ELSE LET out == ReceiveDecode(got[1], buf)
         IN  [result |-> Some([out.result[1] EXCEPT !.op = "transmit"]), buf |-> out.buf]

\* AckDecode that returns the metadata without filling the buffer.
AckDecodeNoCopy(got, buf) ==
    IF got # None /\ Len(got[1].data) >= 1
    THEN LET ack_frame == got[1]
             ack_psdu_len == PsduLen(ack_frame.data)
         IN  IF ack_psdu_len <= Len(buf)
             THEN [result |-> Ok("transmit", Some(Meta(ack_psdu_len, ack_frame.channel,
                                                       Rssi(ack_frame.data, ack_psdu_len)))),
                   buf |-> buf]
             ELSE [result |-> Ok("transmit", None), buf |-> buf]
    ELSE [result |-> Ok("transmit", None), buf |-> buf]

\* AckDecode that reports an empty ack frame as an error.
AckDecodeEmptyIsError(got, buf) ==
    IF got = None
    THEN [result |-> Ok("transmit", None), buf |-> buf]
    ELSE IF Len(got[1].data) < 1
    THEN [result |-> Err("transmit", "Other"), buf |-> buf]
    ELSE LET ack_frame == got[1]
             ack_psdu_len == PsduLen(ack_frame.data)
         IN  IF ack_psdu_len <= Len(buf)
             THEN [result |-> Ok("transmit", Some(Meta(ack_psdu_len, ack_frame.channel,
                                                       Rssi(ack_frame.data, ack_psdu_len)))),
                   buf |-> CopyPsdu(buf, ack_frame.data, ack_psdu_len)]
             ELSE [result |-> Ok("transmit", None), buf |-> buf]

\* transmit, on success with an ack buffer, after get_ack_frame returned `got`.
AckDecode(got, buf) ==
    IF got # None /\ Len(got[1].data) >= 1
    THEN LET ack_frame == got[1]
             ack_psdu_len == PsduLen(ack_frame.data)
         IN  IF ack_psdu_len <= Len(buf)
             THEN [result |-> Ok("transmit", Some(Meta(ack_psdu_len, ack_frame.channel,
                                                       Rssi(ack_frame.data, ack_psdu_len)))),
                   buf |-> CopyPsdu(buf, ack_frame.data, ack_psdu_len)]
             ELSE [result |-> Ok("transmit", None), buf |-> buf]
    ELSE [result |-> Ok("transmit", None), buf |-> buf]

\* AsksForAck without the test of the outcome.
AsksForAckAlways(success, ack_psdu_buf) == ack_psdu_buf # None

\* transmit asks the driver for the ack frame only on success with a buffer.
AsksForAck(success, ack_psdu_buf) == success /\ ack_psdu_buf # None

\* transmit's result when the driver is not asked for an ack frame.
TxOutcome(success) ==
    IF success THEN Ok("transmit", None) ELSE Err("transmit", "TxFailed")

\* ------------------------------------------------------------- state
VARIABLES
    pc,           \* where the cooperative task is
    config,       \* EspRadio.config
    driverConfig, \* the record last passed to driver.set_config
    txSig,        \* TX_SIGNAL: None or Some(success)
    rxSig,        \* RX_SIGNAL: None or Some("unit")
    rxCount,      \* frames buffered in the driver's receive queue
    txOwn,        \* the submission of the transmit in progress or last run:
                  \* "none", "inflight", or the outcome the driver reported for
                  \* it, "done" or "failed"
    txStale,      \* accepted submissions of earlier transmits not yet reported
    ackBuf,       \* transmit's ack_psdu_buf: None or Some(bytes)
    psduBuf,      \* receive's psdu_buf
    submit,       \* what transmit_raw returned: "none", "accepted", "rejected"
    consumed,     \* what TX_SIGNAL.wait() returned to this transmit: None or Some(b)
    ackQueried,   \* whether this transmit called driver.get_ack_frame
    ackFrame,     \* what get_ack_frame returned
    raw,          \* the frame this receive polled: None or Some(frame)
    result,       \* what the last call returned: None while running or abandoned
    cfgPrev,      \* the stored Config when the last set_config was called
    cfgArg,       \* the Config the last set_config was called with
    cfgCalls,     \* driver.set_config calls made by the last set_config
    txOld,        \* TX_SIGNAL held a notification when the transmit in progress
                  \* (or last run) started, and none was raised since
    rxOld,        \* the same for RX_SIGNAL and receive
    staleWake,    \* a wait of this call returned a notification older than the call
    rxWoken,      \* RX_SIGNAL.wait() has returned in the receive in progress
    calls,        \* driver calls made by this call: transmit_raw, start_receive,
                  \* and frames taken with raw_received
    adapters      \* EspRadio instances constructed

sigVars == <<txSig, rxSig>>
drvVars == <<rxCount, txOwn, txStale>>
cfgVars == <<config, driverConfig, cfgPrev, cfgArg, cfgCalls>>
txVars == <<ackBuf, submit, consumed, ackQueried, ackFrame>>
rxVars == <<psduBuf, raw>>
oldVars == <<txOld, rxOld>>
obsVars == <<staleWake, rxWoken, calls>>
vars == <<pc, sigVars, drvVars, cfgVars, txVars, rxVars, result, oldVars, obsVars,
          adapters>>

NoCalls == [transmit_raw |-> 0, start_receive |-> 0, frames |-> 0]

\* EspRadio::new: the default Config is stored and pushed to the driver.
Init ==
    /\ pc = "idle"
    /\ config = DEFAULT_CONFIG
    /\ driverConfig = EspConfig(DEFAULT_CONFIG)
    /\ txSig = None
    /\ rxSig = None
    /\ rxCount = 0
    /\ txOwn = "none"
    /\ txStale = 0
    /\ ackBuf = None
    /\ psduBuf = <<>>
    /\ submit = "none"
    /\ consumed = None
    /\ ackQueried = FALSE
    /\ ackFrame = None
    /\ raw = None
    /\ result = None
    /\ cfgPrev = DEFAULT_CONFIG
    /\ cfgArg = DEFAULT_CONFIG
    /\ cfgCalls = 0
    /\ txOld = FALSE
    /\ rxOld = FALSE
    /\ staleWake = FALSE
    /\ rxWoken = FALSE
    /\ calls = NoCalls
    /\ adapters = 1

\* What a new call leaves of the previous call's arguments and observations.
FreshCall ==
    /\ cfgPrev' = DEFAULT_CONFIG
    /\ cfgArg' = DEFAULT_CONFIG
    /\ cfgCalls' = 0
    /\ submit' = "none"
    /\ consumed' = None
    /\ ackQueried' = FALSE
    /\ ackFrame' = None
    /\ raw' = None
    /\ staleWake' = FALSE
    /\ rxWoken' = FALSE
    /\ calls' = NoCalls

\* ------------------------------------------------------------- interrupt context
\* rx_callback registered with the wrong signal.
rx_callback_wrong_signal ==
    /\ rxCount' = Min(rxCount + 1, MaxQueue)
    /\ txSig' = Some(TRUE)
    /\ txOld' = FALSE
    /\ UNCHANGED <<pc, rxSig, txOwn, txStale, cfgVars, txVars, rxVars, result, rxOld,
                   obsVars, adapters>>

\* The driver's receive interrupt calls the receive-available callback, at any
\* point of the task: for a frame it has buffered, or for one it did not keep
\* (the queue is full, or the frame is gone before the task polls).
rx_callback ==
    /\ \E buffered \in BOOLEAN :
           rxCount' = IF buffered THEN Min(rxCount + 1, MaxQueue) ELSE rxCount
    /\ rxSig' = Some("unit")
    /\ rxOld' = FALSE
    /\ UNCHANGED <<pc, txSig, txOwn, txStale, cfgVars, txVars, rxVars, result, txOld,
                   obsVars, adapters>>

\* The driver ends an accepted submission with `outcome`: the one of the
\* transmit in progress or last run, or one of an earlier, abandoned transmit.
DriverReports(own, outcome) ==
    IF own
    THEN /\ txOwn = "inflight"
         /\ txOwn' = outcome
         /\ UNCHANGED txStale
    ELSE /\ txStale > 0
         /\ txStale' = txStale - 1
         /\ UNCHANGED txOwn

\* The driver completes an accepted submission and calls the tx-done callback.
tx_done_callback ==
    /\ \E own \in BOOLEAN : DriverReports(own, "done")
    /\ txSig' = Some(TRUE)
    /\ txOld' = FALSE
    /\ UNCHANGED <<pc, rxSig, rxCount, cfgVars, txVars, rxVars, result, rxOld, obsVars,
                   adapters>>

\* tx_failed_callback that raises no notification.
tx_failed_callback_silent ==
    /\ \E own \in BOOLEAN : DriverReports(own, "failed")
    /\ UNCHANGED <<pc, sigVars, rxCount, cfgVars, txVars, rxVars, result, oldVars,
                   obsVars, adapters>>

\* The driver gives up on an accepted submission and calls the tx-failed callback.
tx_failed_callback ==
    /\ \E own \in BOOLEAN : DriverReports(own, "failed")
    /\ txSig' = Some(FALSE)
    /\ txOld' = FALSE
    /\ UNCHANGED <<pc, rxSig, rxCount, cfgVars, txVars, rxVars, result, rxOld, obsVars,
                   adapters>>

\* ------------------------------------------------------------- set_config
\* set_config that compares the channel alone.
set_config_channel_only(new) ==
    /\ pc = "idle"
    /\ cfgPrev' = config
    /\ cfgArg' = new
    /\ IF config.channel # new.channel
       THEN /\ config' = new
            /\ driverConfig' = EspConfig(new)
            /\ cfgCalls' = 1
       ELSE /\ UNCHANGED <<config, driverConfig>>
            /\ cfgCalls' = 0
    /\ submit' = "none"
    /\ consumed' = None
    /\ ackQueried' = FALSE
    /\ ackFrame' = None
    /\ raw' = None
    /\ staleWake' = FALSE
    /\ rxWoken' = FALSE
    /\ calls' = NoCalls
    /\ result' = Ok("set_config", None)
    /\ ackBuf' = None
    /\ psduBuf' = <<>>
    /\ UNCHANGED <<pc, sigVars, drvVars, oldVars, adapters>>

\* set_config that stores the new Config without programming the driver.
set_config_store_only(new) ==
    /\ pc = "idle"
    /\ cfgPrev' = config
    /\ cfgArg' = new
    /\ config' = new
    /\ cfgCalls' = 0
    /\ submit' = "none"
    /\ consumed' = None
    /\ ackQueried' = FALSE
    /\ ackFrame' = None
    /\ raw' = None
    /\ staleWake' = FALSE
    /\ rxWoken' = FALSE
    /\ calls' = NoCalls
    /\ result' = Ok("set_config", None)
    /\ ackBuf' = None
    /\ psduBuf' = <<>>
    /\ UNCHANGED <<pc, driverConfig, sigVars, drvVars, oldVars, adapters>>

set_config(new) ==
    /\ pc = "idle"
    /\ cfgPrev' = config
    /\ cfgArg' = new
    /\ IF config # new
       THEN /\ config' = new
            /\ driverConfig' = EspConfig(new)
            /\ cfgCalls' = 1
       ELSE /\ UNCHANGED <<config, driverConfig>>
            /\ cfgCalls' = 0
    /\ submit' = "none"
    /\ consumed' = None
    /\ ackQueried' = FALSE
    /\ ackFrame' = None
    /\ raw' = None
    /\ staleWake' = FALSE
    /\ rxWoken' = FALSE
    /\ calls' = NoCalls
    /\ result' = Ok("set_config", None)
    /\ ackBuf' = None
    /\ psduBuf' = <<>>
    /\ UNCHANGED <<pc, sigVars, drvVars, oldVars, adapters>>

\* ------------------------------------------------------------- transmit
\* transmit without TX_SIGNAL.reset().
transmit_reset_no_reset(ack_psdu_buf) ==
    /\ pc = "idle"
    /\ txOwn = "inflight" => txStale < MaxStale
    /\ txStale' = IF txOwn = "inflight" THEN txStale + 1 ELSE txStale
    /\ txOwn' = "none"
    /\ txOld' = (txSig # None)
    /\ rxOld' = FALSE
    /\ FreshCall
    /\ result' = None
    /\ ackBuf' = ack_psdu_buf
    /\ psduBuf' = <<>>
    /\ pc' = "tx_submit"
    /\ UNCHANGED <<sigVars, rxCount, config, driverConfig, adapters>>

\* transmit is called with an optional ack buffer; TX_SIGNAL.reset() runs
\* before the first point at which the task can be preempted.
transmit_reset(ack_psdu_buf) ==
    /\ pc = "idle"
    /\ txOwn = "inflight" => txStale < MaxStale
    /\ txStale' = IF txOwn = "inflight" THEN txStale + 1 ELSE txStale
    /\ txOwn' = "none"
    /\ txSig' = None
    /\ txOld' = (txSig # None)
    /\ rxOld' = FALSE
    /\ FreshCall
    /\ result' = None
    /\ ackBuf' = ack_psdu_buf
    /\ psduBuf' = <<>>
    /\ pc' = "tx_submit"
    /\ UNCHANGED <<rxSig, rxCount, config, driverConfig, adapters>>

\* transmit_submit that reports a rejected submission as a failed transmission.
transmit_submit_txfailed(accepted) ==
    /\ pc = "tx_submit"
    /\ IF accepted
       THEN /\ txOwn' = "inflight"
            /\ submit' = "accepted"
            /\ pc' = "tx_wait"
            /\ UNCHANGED result
       ELSE /\ submit' = "rejected"
            /\ result' = Err("transmit", "TxFailed")
            /\ pc' = "idle"
            /\ UNCHANGED txOwn
    /\ calls' = [calls EXCEPT !.transmit_raw = @ + 1]
    /\ UNCHANGED <<sigVars, rxCount, txStale, cfgVars, ackBuf, consumed, ackQueried,
                   ackFrame, rxVars, oldVars, staleWake, rxWoken, adapters>>

\* driver.transmit_raw(psdu, cca).map_err(|_| RadioErrorKind::Other)?
transmit_submit(accepted) ==
    /\ pc = "tx_submit"
    /\ IF accepted
       THEN /\ txOwn' = "inflight"
            /\ submit' = "accepted"
            /\ pc' = "tx_wait"
            /\ UNCHANGED result
       ELSE /\ submit' = "rejected"
            /\ result' = Err("transmit", "Other")
            /\ pc' = "idle"
            /\ UNCHANGED txOwn
    /\ calls' = [calls EXCEPT !.transmit_raw = @ + 1]
    /\ UNCHANGED <<sigVars, rxCount, txStale, cfgVars, ackBuf, consumed, ackQueried,
                   ackFrame, rxVars, oldVars, staleWake, rxWoken, adapters>>

\* TX_SIGNAL.wait().await returns, and transmit runs to its end.  `got` is
\* what driver.get_ack_frame() returns if it is called.
transmit_wait(got) ==
    /\ pc = "tx_wait"
    /\ txSig # None
    /\ LET success == txSig[1]
       IN  /\ txSig' = None
           /\ consumed' = Some(success)
           /\ IF AsksForAck(success, ackBuf)
              THEN LET out == AckDecode(got, ackBuf[1])
                   IN  /\ ackQueried' = TRUE
                       /\ ackFrame' = got
                       /\ ackBuf' = Some(out.buf)
                       /\ result' = out.result
              ELSE /\ got = None
                   /\ UNCHANGED <<ackQueried, ackFrame, ackBuf>>
                   /\ result' = TxOutcome(success)
    /\ staleWake' = txOld
    /\ txOld' = FALSE
    /\ pc' = "idle"
    /\ UNCHANGED <<rxSig, drvVars, cfgVars, submit, rxVars, rxOld, rxWoken, calls,
                   adapters>>

\* ------------------------------------------------------------- receive
\* receive is called with a buffer; RX_SIGNAL.reset() runs before the first
\* point at which the task can be preempted.
receive_reset(psdu_buf) ==
    /\ pc = "idle"
    /\ rxSig' = None
    /\ rxOld' = (rxSig # None)
    /\ txOld' = FALSE
    /\ FreshCall
    /\ result' = None
    /\ ackBuf' = None
    /\ psduBuf' = psdu_buf
    /\ pc' = "rx_start"
    /\ UNCHANGED <<txSig, drvVars, config, driverConfig, adapters>>

\* driver.start_receive()
receive_start ==
    /\ pc = "rx_start"
    /\ pc' = "rx_poll"
    /\ calls' = [calls EXCEPT !.start_receive = @ + 1]
    /\ UNCHANGED <<sigVars, drvVars, cfgVars, txVars, rxVars, result, oldVars,
                   staleWake, rxWoken, adapters>>

\* receive_poll that fails when the driver has no frame, instead of waiting.
receive_poll_empty_error(frame) ==
    /\ pc = "rx_poll"
    /\ IF rxCount > 0
       THEN LET out == ReceiveDecode(frame, psduBuf)
            IN  /\ rxCount' = rxCount - 1
                /\ raw' = Some(frame)
                /\ psduBuf' = out.buf
                /\ result' = out.result
                /\ calls' = [calls EXCEPT !.frames = @ + 1]
       ELSE /\ result' = Err("receive", "Other")
            /\ UNCHANGED <<rxCount, rxVars, calls>>
    /\ rxWoken' = FALSE
    /\ pc' = "idle"
    /\ UNCHANGED <<sigVars, txOwn, txStale, cfgVars, txVars, oldVars, staleWake,
                   adapters>>

\* receive_poll that drops a frame it cannot decode and polls for the next.
receive_poll_retry(frame) ==
    /\ pc = "rx_poll"
    /\ IF rxCount > 0
       THEN LET out == ReceiveDecode(frame, psduBuf)
            IN  /\ rxCount' = rxCount - 1
                /\ calls' = [calls EXCEPT !.frames = Min(@ + 1, 2)]
                /\ IF out.result[1].kind = "Ok"
                   THEN /\ raw' = Some(frame)
                        /\ psduBuf' = out.buf
                        /\ result' = out.result
                        /\ rxWoken' = FALSE
                        /\ pc' = "idle"
                   ELSE UNCHANGED <<pc, rxVars, result, rxWoken>>
       ELSE /\ pc' = "rx_wait"
            /\ UNCHANGED <<rxCount, rxVars, result, calls, rxWoken>>
    /\ UNCHANGED <<sigVars, txOwn, txStale, cfgVars, txVars, oldVars, staleWake,
                   adapters>>

\* driver.raw_received(): a buffered frame ends the loop and is decoded;
\* without one the task goes on to RX_SIGNAL.wait().
receive_poll(frame) ==
    /\ pc = "rx_poll"
    /\ IF rxCount > 0
       THEN LET out == ReceiveDecode(frame, psduBuf)
            IN  /\ rxCount' = rxCount - 1
                /\ raw' = Some(frame)
                /\ psduBuf' = out.buf
                /\ result' = out.result
                /\ calls' = [calls EXCEPT !.frames = @ + 1]
                /\ rxWoken' = FALSE
                /\ pc' = "idle"
       ELSE /\ pc' = "rx_wait"
            /\ UNCHANGED <<rxCount, rxVars, result, calls, rxWoken>>
    /\ UNCHANGED <<sigVars, txOwn, txStale, cfgVars, txVars, oldVars, staleWake,
                   adapters>>

\* receive_wait that leaves the notification in the signal.
receive_wait_peek ==
    /\ pc = "rx_wait"
    /\ rxSig # None
    /\ staleWake' = rxOld
    /\ rxWoken' = TRUE
    /\ pc' = "rx_poll"
    /\ UNCHANGED <<sigVars, drvVars, cfgVars, txVars, rxVars, result, oldVars, calls,
                   adapters>>

\* RX_SIGNAL.wait().await returns and the loop polls again.
receive_wait ==
    /\ pc = "rx_wait"
    /\ rxSig # None
    /\ rxSig' = None
    /\ staleWake' = rxOld
    /\ rxOld' = FALSE
    /\ rxWoken' = TRUE
    /\ pc' = "rx_poll"
    /\ UNCHANGED <<txSig, drvVars, cfgVars, txVars, rxVars, result, txOld, calls,
                   adapters>>

\* ------------------------------------------------------------- cancellation
\* The caller drops the future of transmit or receive while it is suspended
\* in a wait (an ack timeout layered above): the call never returns.
abandon ==
    /\ pc \in {"tx_wait", "rx_wait"}
    /\ pc' = "idle"
    /\ rxWoken' = FALSE
    /\ UNCHANGED <<sigVars, drvVars, cfgVars, txVars, rxVars, result, oldVars, staleWake,
                   calls, adapters>>

\* ------------------------------------------------------------- construction
\* EspRadio::new for one more driver handle: the callbacks are registered
\* again and the new instance pushes its default Config to the driver.  The
\* other variables stay those of the first instance and of the shared signals.
new ==
    /\ pc = "idle"
    /\ adapters < MaxAdapters
    /\ adapters' = adapters + 1
    /\ driverConfig' = EspConfig(DEFAULT_CONFIG)
    /\ UNCHANGED <<pc, config, cfgPrev, cfgArg, cfgCalls, sigVars, drvVars, txVars,
                   rxVars, result, oldVars, obsVars>>

\* ------------------------------------------------------------- specification
AckBufs == {None} \cup {Some(b) : b \in Buffers}
AckFrames == {None} \cup {Some(f) : f \in Frames}

Next ==
    \/ rx_callback
    \/ tx_done_callback
    \/ tx_failed_callback
    \/ \E c \in CallerConfigs : set_config(c)
    \/ \E b \in AckBufs : transmit_reset(b)
    \/ \E a \in BOOLEAN : transmit_submit(a)
    \/ \E got \in AckFrames : transmit_wait(got)
    \/ \E b \in Buffers : receive_reset(b)
    \/ receive_start
    \/ \E f \in Frames : receive_poll(f)
    \/ receive_wait
    \/ abandon

Spec == Init /\ [][Next]_vars

\* The adapter under set_config calls alone, over every Config of Configs.
ConfigNext == \E c \in Configs : set_config(c)

ConfigSpec == Init /\ [][ConfigNext]_vars

\* The frames the fair specification draws from: an empty one, one that fits
\* a one-byte buffer and carries an RSSI byte, one that needs two bytes.
LiveFrames ==
    {[data |-> <<>>, channel |-> 11],
     [data |-> <<1, 129, 255>>, channel |-> 26],
     [data |-> <<255, 1, 129>>, channel |-> 11]}

\* The steps of the cooperative task past the start of a call.
TaskStep ==
    \/ \E a \in BOOLEAN : transmit_submit(a)
    \/ \E got \in {None} \cup {Some(f) : f \in LiveFrames} : transmit_wait(got)
    \/ receive_start
    \/ \E f \in LiveFrames : receive_poll(f)
    \/ receive_wait

LiveNext ==
    \/ rx_callback
    \/ tx_done_callback
    \/ tx_failed_callback
    \/ \E c \in CallerConfigs : set_config(c)
    \/ \E b \in AckBufs : transmit_reset(b)
    \/ \E a \in BOOLEAN : transmit_submit(a)
    \/ \E got \in {None} \cup {Some(f) : f \in LiveFrames} : transmit_wait(got)
    \/ \E b \in Buffers : receive_reset(b)
    \/ receive_start
    \/ \E f \in LiveFrames : receive_poll(f)
    \/ receive_wait
    \/ abandon

\* The same program with the task scheduled fairly: a task that can take its
\* next step does take it.  Nothing is assumed of the driver or of the caller.
LiveSpec == Init /\ [][LiveNext]_vars /\ WF_vars(TaskStep)

\* The task fair and the driver too: it reports on every accepted submission.
DriverReport == tx_done_callback \/ tx_failed_callback

DriverFairSpec == Init /\ [][LiveNext]_vars /\ WF_vars(TaskStep) /\ WF_vars(DriverReport)

\* The program with EspRadio::new callable again.
NewNext == new \/ LiveNext

NewSpec == Init /\ [][NewNext]_vars

\* ============================================================= properties
Returned(op) == pc = "idle" /\ result # None /\ result[1].op = op
Unwritten(buf) == buf = Buffer(Len(buf))
\* min(v & 0x7F, L - 1) of a non-empty frame, with the mask as a remainder.
DeclaredLen(data) == IF data[1] % 128 < Len(data) - 1 THEN data[1] % 128 ELSE Len(data) - 1
\* A byte as a signed 8-bit value.
Signed(b) == ((b + 128) % 256) - 128

\* C1: every transmit whose submission the driver accepted returns the outcome
\* the driver reported for that submission: Ok after its tx-done, Err(TxFailed)
\* after its tx-failed, and never before the driver reported either.
C1_OwnOutcome ==
    (Returned("transmit") /\ submit = "accepted") =>
        /\ result[1].kind = "Ok" => txOwn = "done"
        /\ result[1].kind = "TxFailed" => txOwn = "failed"

\* C2: a receive in progress while the driver holds a buffered frame comes to
\* its end: it returns with a frame it polled (or its caller abandons it); it
\* does not stay suspended.
C2_NoLostWakeup ==
    (pc \in {"rx_start", "rx_poll", "rx_wait"} /\ rxCount > 0)
        ~> (pc = "idle" /\ (result = None \/ (result[1].op = "receive" /\ raw # None)))

\* C2 witness: a frame is buffered while receive is suspended in its wait.
C2_Witness == pc = "rx_wait" /\ rxCount > 0 /\ rxSig # None

\* C3: when the notification transmit consumed carries failure, transmit
\* returns Err(TxFailed), has not asked the driver for an ack frame, and the
\* ack buffer, if supplied, is unchanged.
C3_FailureOutcome ==
    consumed = Some(FALSE) =>
        /\ Returned("transmit")
        /\ result = Err("transmit", "TxFailed")
        /\ ~ackQueried
        /\ ackBuf # None => Unwritten(ackBuf[1])

\* C3 witness: a failed transmit that was given a non-empty ack buffer.
C3_Witness == consumed = Some(FALSE) /\ ackBuf # None /\ Len(ackBuf[1]) > 0

\* C4: on success transmit returns Ok(None) with the ack buffer unchanged when
\* no ack buffer was supplied (the driver is then not asked), when the driver
\* captured no ack frame, or when the decoded ack length exceeds the buffer.
C4_OkNone ==
    (consumed = Some(TRUE) /\
        \/ ackBuf = None
        \/ ackFrame = None
        \/ (Len(ackFrame[1].data) >= 1 /\ DeclaredLen(ackFrame[1].data) > Len(ackBuf[1])))
    =>  /\ result = Ok("transmit", None)
        /\ ackBuf = None => ~ackQueried
        /\ ackBuf # None => Unwritten(ackBuf[1])

\* C4 witness: a successful transmit whose captured ack does not fit the buffer.
C4_Witness ==
    /\ consumed = Some(TRUE) /\ ackQueried /\ ackFrame # None
    /\ Len(ackFrame[1].data) >= 1
    /\ DeclaredLen(ackFrame[1].data) > Len(ackBuf[1])

\* C5: when the driver rejects the submission transmit returns Err(Other) at
\* once: it consumed no notification, did not ask for an ack frame and left
\* the ack buffer unchanged.
C5_Rejected ==
    submit = "rejected" =>
        /\ Returned("transmit")
        /\ result = Err("transmit", "Other")
        /\ consumed = None
        /\ ~ackQueried
        /\ ackBuf # None => Unwritten(ackBuf[1])

\* C5 witness: a rejected submission of a transmit that was given an ack
\* buffer, with a notification pending on the transmit-outcome signal.
C5_Witness == submit = "rejected" /\ ackBuf # None /\ txSig # None

\* C6: a set_config call makes one driver set_config call when its Config
\* differs from the stored one in some field and none when it is equal, and
\* returns Ok(()).
C6_SetConfigCalls ==
    Returned("set_config") =>
        /\ result[1].kind = "Ok"
        /\ cfgCalls = IF \E f \in DOMAIN cfgArg : cfgArg[f] # cfgPrev[f] THEN 1 ELSE 0

\* C6 witness: a set_config whose Config differs from the stored one in a
\* field other than the channel.
C6_Witness ==
    /\ Returned("set_config") /\ cfgCalls = 1
    /\ cfgArg.channel = cfgPrev.channel /\ cfgPrev # DEFAULT_CONFIG

\* C7: for a polled frame of length L >= 1 whose decoded length
\* min(v & 0x7F, L - 1) fits the buffer, receive returns that length, the
\* PSDU bytes raw[1..1+len] in psdu_buf[0..len] and the frame's channel.
C7_ReceiveDecodes ==
    (Returned("receive") /\ raw # None /\ Len(raw[1].data) >= 1
        /\ DeclaredLen(raw[1].data) <= Len(psduBuf))
    =>  /\ result[1].kind = "Ok"
        /\ result[1].meta # None
        /\ result[1].meta[1].len = DeclaredLen(raw[1].data)
        /\ \A i \in 1..DeclaredLen(raw[1].data) : psduBuf[i] = raw[1].data[i + 1]
        /\ result[1].meta[1].channel = raw[1].channel

\* C7 witness: a frame whose length byte has the top bit set and declares
\* fewer bytes than follow it.
C7_Witness ==
    /\ Returned("receive") /\ raw # None /\ Len(raw[1].data) = 3
    /\ raw[1].data[1] = 129 /\ result[1].kind = "Ok"

\* C8: receive returns Err(Other) exactly when the polled frame is empty or its
\* decoded length exceeds the buffer's capacity, psdu_buf is then unmodified,
\* and it returns Ok otherwise.
C8_ReceiveErrors ==
    (Returned("receive") /\ raw # None) =>
        LET data == raw[1].data
            bad == Len(data) = 0 \/ DeclaredLen(data) > Len(psduBuf)
        IN  /\ result[1].kind = IF bad THEN "Other" ELSE "Ok"
            /\ bad => Unwritten(psduBuf)

\* C8 witness: a non-empty frame too long for a non-empty buffer.
C8_Witness ==
    /\ Returned("receive") /\ raw # None /\ Len(raw[1].data) >= 1
    /\ Len(psduBuf) >= 1 /\ result[1].kind = "Other"

\* The frame a returned PsduMeta was decoded from.
DecodedFrame == IF result[1].op = "receive" THEN raw[1] ELSE ackFrame[1]

\* C9: in every PsduMeta returned by receive or by transmit, rssi is Some
\* exactly when the frame is longer than 1 + len, and is then the byte at
\* offset 1 + len as a signed 8-bit value.
C9_Rssi ==
    (pc = "idle" /\ result # None /\ result[1].meta # None) =>
        LET m == result[1].meta[1]
            data == DecodedFrame.data
        IN  m.rssi = IF Len(data) > 1 + m.len THEN Some(Signed(data[1 + m.len + 1]))
                                              ELSE None

\* C9 witness: an ack frame decoded with a negative RSSI.
C9_Witness ==
    /\ Returned("transmit") /\ result[1].meta # None
    /\ result[1].meta[1].rssi # None /\ result[1].meta[1].rssi[1] < 0

\* The wait of transmit, and of receive, returns in this step.
TxWake == pc = "tx_wait" /\ pc' = "idle" /\ result' # None
RxWake == pc = "rx_wait" /\ pc' = "rx_poll"

\* C10: for each of the two signals, a notification the driver raises is
\* stored whether or not the task is waiting; a wait returns only by taking a
\* stored notification, which empties the signal, so that a wait with no
\* notification stored does not return; and a wait that finds a notification
\* stored does return.
C10_SignalOnce ==
    /\ [][(txOwn' # txOwn /\ txOwn' \in {"done", "failed"})
             => txSig' = Some(txOwn' = "done")]_vars
    /\ [][txStale' < txStale => txSig' # None]_vars
    /\ [][rxCount' > rxCount => rxSig' = Some("unit")]_vars
    /\ [][TxWake => (txSig # None /\ consumed' = txSig /\ txSig' = None)]_vars
    /\ [][RxWake => (rxSig # None /\ rxSig' = None)]_vars
    /\ (pc = "tx_wait" /\ txSig # None) ~> (pc # "tx_wait")
    /\ (pc = "rx_wait" /\ rxSig # None) ~> (pc # "rx_wait")

\* C10 witness: a transmit-outcome notification raised between transmit's
\* reset and its wait, while no task is waiting, is held by the signal.
C10_Witness == pc = "tx_submit" /\ txSig # None

\* C11: a notification already pending when transmit or receive starts is
\* never the one that ends a wait of that call: the reset at the start of the
\* call clears it, and the notification a wait takes was raised after the reset.
C11_NoStaleWake == ~staleWake

\* C11 witness: TX_SIGNAL held a notification when transmit started, the reset
\* cleared it, and the transmit is suspended in its wait on the empty signal.
C11_Witness == pc = "tx_wait" /\ txOld /\ txSig = None

\* The PsduMeta of a returned Ok result, and the buffer it describes.
HasMeta == pc = "idle" /\ result # None /\ result[1].kind = "Ok" /\ result[1].meta # None
MetaBuf == IF result[1].op = "receive" THEN psduBuf ELSE ackBuf[1]

\* C12: in every Ok result that carries a PsduMeta, len is at most the
\* capacity of the caller's buffer and at most 127, and every byte of the
\* buffer past the first len positions is as the caller passed it.
C12_WithinBuffer ==
    HasMeta =>
        LET n == result[1].meta[1].len
        IN  /\ n <= Len(MetaBuf)
            /\ n <= 127
            /\ \A i \in (n + 1)..Len(MetaBuf) : MetaBuf[i] = 170

\* C12 witness: a frame with a byte after its PSDU decoded into a buffer
\* larger than the PSDU.
C12_Witness ==
    /\ HasMeta /\ result[1].op = "receive"
    /\ result[1].meta[1].len < Len(psduBuf)
    /\ Len(raw[1].data) > 1 + result[1].meta[1].len

C14_PolledFrameOnly ==
    /\ [](Returned("receive") => raw # None)
    /\ [][(pc = "rx_poll" /\ rxCount = 0 /\ pc' # pc)
             => (pc' = "rx_wait" /\ result' = None)]_vars

\* C14 witness: a receive that was woken, polled, found no frame and is
\* suspended again.
C14_Witness == pc = "rx_wait" /\ rxWoken /\ rxCount = 0 /\ result = None

\* C15: a call submits to the driver at most once, calls start_receive once
\* and takes at most one frame; a receive that took a frame has returned, with
\* whatever result, and a transmit whose submission was rejected or failed
\* has returned after its one submission.
C15_NoRetry ==
    /\ calls.transmit_raw <= 1 /\ calls.start_receive <= 1 /\ calls.frames <= 1
    /\ pc \in {"rx_poll", "rx_wait"} => calls.start_receive = 1
    /\ Returned("receive") => (calls.start_receive = 1 /\ calls.frames = 1)
    /\ calls.frames = 1 => Returned("receive")
    /\ (submit = "rejected" \/ consumed = Some(FALSE))
           => (Returned("transmit") /\ calls.transmit_raw = 1)

\* C15 witness: a receive that failed with Other while the driver holds
\* another frame.
C15_Witness ==
    /\ Returned("receive") /\ result[1].kind = "Other"
    /\ rxCount > 0 /\ calls.frames = 1

\* C16: on success, with an ack buffer and a captured non-empty ack frame whose
\* decoded length n fits the buffer, transmit copies data[1..1+n] into
\* ack_buf[0..n], leaves ack_buf[n..] unchanged and returns
\* Ok(Some(PsduMeta{n, the ack frame's channel, rssi})).
C16_AckCopied ==
    (consumed = Some(TRUE) /\ ackBuf # None /\ ackFrame # None
        /\ Len(ackFrame[1].data) >= 1
        /\ DeclaredLen(ackFrame[1].data) <= Len(ackBuf[1]))
    =>  LET data == ackFrame[1].data
            n == DeclaredLen(data)
            rssi == IF Len(data) > 1 + n THEN Some(Signed(data[n + 2])) ELSE None
        IN  /\ result = Ok("transmit", Some(Meta(n, ackFrame[1].channel, rssi)))
            /\ \A i \in 1..n : ackBuf[1][i] = data[i + 1]
            /\ \A i \in (n + 1)..Len(ackBuf[1]) : ackBuf[1][i] = 170

\* C16 witness: a one-byte ack PSDU copied into a two-byte ack buffer.
C16_Witness ==
    /\ consumed = Some(TRUE) /\ ackBuf # None /\ ackFrame # None
    /\ Len(ackFrame[1].data) >= 2
    /\ DeclaredLen(ackFrame[1].data) = 1 /\ Len(ackBuf[1]) = 2

\* C17: the record pushed to the driver has auto_ack_tx, auto_ack_rx and
\* enhance_ack_tx true, coordinator false and rx_queue_size 50; channel, power,
\* pan_id, short_addr, ext_addr, promiscuous and rx_when_idle are the Config's;
\* the CCA mode is the variant's and the threshold is 0 for Carrier and the
\* variant's ed_threshold otherwise.
C17_Translation ==
    /\ driverConfig.auto_ack_tx /\ driverConfig.auto_ack_rx /\ driverConfig.enhance_ack_tx
    /\ ~driverConfig.coordinator
    /\ driverConfig.rx_queue_size = 50
    /\ driverConfig.channel = config.channel
    /\ driverConfig.txpower = config.power
    /\ driverConfig.pan_id = config.pan_id
    /\ driverConfig.short_addr = config.short_addr
    /\ driverConfig.ext_addr = config.ext_addr
    /\ driverConfig.promiscuous = config.promiscuous
    /\ driverConfig.rx_when_idle = config.rx_when_idle
    /\ driverConfig.cca_mode = config.cca.mode
    /\ driverConfig.cca_threshold =
           IF config.cca.mode = "Carrier" THEN 0 ELSE config.cca.ed_threshold

\* C18: transmit's wait returns only by a notification of the transmit-outcome
\* signal raised after the reset, whatever the receive-available signal holds;
\* and when the driver reports on every accepted submission, a transmit
\* suspended in its wait comes to its end.
C18_WaitsForOutcome ==
    /\ [][TxWake => (txSig # None /\ ~txOld)]_vars
    /\ [][(pc = "tx_wait" /\ txSig = None /\ pc' # pc) => result' = None]_vars
    /\ (pc = "tx_wait") ~> (pc = "idle")

\* C18 witness: a transmit suspended on an empty transmit-outcome signal while
\* the receive-available signal holds a notification and the driver has not
\* yet reported on the submission.
C18_Witness == pc = "tx_wait" /\ txSig = None /\ rxSig # None /\ txOwn = "inflight"

\* C19: the configuration last applied to the driver is the translation of
\* the stored Config, from construction on; the stored Config changes only in
\* a step that programs the driver, once, with the translation of the new one.
C19_DriverInSync ==
    /\ [](driverConfig = EspConfig(config))
    /\ [][config' # config => (driverConfig' = EspConfig(config') /\ cfgCalls' = 1)]_vars

\* C19 witness: a set_config call that returned after changing the stored
\* Config away from the default.
C19_Witness == Returned("set_config") /\ config # DEFAULT_CONFIG /\ cfgPrev # config

\* C20: a transmit whose submission the driver accepted never returns
\* Err(Other); an empty captured ack frame on success gives Ok(None) with the
\* ack buffer unchanged, while an empty frame in receive gives Err(Other).
C20_NoOtherAfterAccept ==
    /\ (Returned("transmit") /\ submit = "accepted") => result[1].kind \in {"Ok", "TxFailed"}
    /\ (consumed = Some(TRUE) /\ ackFrame # None /\ Len(ackFrame[1].data) = 0)
           => (result = Ok("transmit", None) /\ Unwritten(ackBuf[1]))
    /\ (Returned("receive") /\ raw # None /\ Len(raw[1].data) = 0)
           => result = Err("receive", "Other")

\* C20 witness: a successful transmit with an ack buffer for which the driver
\* captured an empty ack frame.
C20_Witness ==
    /\ Returned("transmit") /\ consumed = Some(TRUE)
    /\ ackFrame # None /\ Len(ackFrame[1].data) = 0 /\ Len(ackBuf[1]) > 0

====
